---- MODULE Spec2Model ----
(***************************************************************************)
(* Model of src/contexts/useBribes.tsx (BribesContextApp): the refresh     *)
(* cycle getBribes with its three batched fetches, the two assign          *)
(* functions that publish currentRewards / claimable / nextRewards, and    *)
(* the overwrite of the locally computed period by the on-chain one.       *)
(*                                                                         *)
(* A batched remote call (ethcall tryAll) is one atomic read of the chain: *)
(* its answer is a function of the call, chosen when the answer arrives.   *)
(* Two different batches may see different chain states.  Every entry of a *)
(* result list carries, beside its value, the call that produced it; the   *)
(* code reads only the value, the call is kept for the alignment claims.   *)
(* Every call of a batch succeeds and returns a number: the registries'    *)
(* getters are views over mappings.                                        *)
(***************************************************************************)
EXTENDS Integers, Sequences, FiniteSets, TLC

\* ------------------------------------------------------------------ bounds
\* Number of refresh cycles (getBribes invocations) in one behaviour of Spec.
MaxCycles == 2
\* (gauge, token) pairs the two registries list between them, as seen by one
\* cycle: in Spec, where cycles race, and in SpecCycle, where one cycle runs.
AppPairs == 1
MaxPairs == 2

\* --------------------------------------------------------------- constants
\* The value getLastThursday() returns during the behaviour (a clock value,
\* abstracted to a small number; periods are compared, never decomposed).
getLastThursday == 1
Week == 86400 * 7
\* Active periods the chain can report: before, at and after the local one.
Periods == (getLastThursday - 1) .. (getLastThursday + 1)
\* Amounts the chain can report (uint256 in the registries' ABI).
Amounts == {0, 1}
\* Token lists a registry can report for one gauge: in Spec and in SpecCycle.
AppTokenLists == {<<>>, <<"T1">>}
TokenLists == {<<>>, <<"T1">>, <<"T1", "T2">>}
\* What a read past the end of a JavaScript array yields.
Undefined == 0 - 1

\* The gauge list the useCurve() context supplies once loaded.  gauge is
\* the address as the registry context spells it; rewardPerGauge is absent
\* (hasRewardPerGauge = FALSE) until getRewardsPerUser creates it.
GaugeList ==
    << [gauge |-> "g1", hasRewardPerGauge |-> FALSE, rewardPerGauge |-> <<>>],
       [gauge |-> "G2", hasRewardPerGauge |-> FALSE, rewardPerGauge |-> <<>>] >>

\* ----------------------------------------------------------------- helpers
Range(s) == {s[i] : i \in 1 .. Len(s)}
Values(res) == [i \in 1 .. Len(res) |-> res[i].value]
EmptyMap == [x \in {} |-> 0]

\* toAddress: the checksummed form of an address.
toAddress(a) == IF a = "g1" THEN "G1" ELSE a

\* allowanceKey(gauge, token): the composite key; key[1], key[2] is what
\* rewardListKey.split('_') gives back.
allowanceKey(gauge, token) == <<gauge, token>>

\* m[g][t] = v, creating m[g] when absent (lines 185-196, 221-225).
Put(m, g, t, v) ==
    LET inner == IF g \in DOMAIN m THEN m[g] ELSE EmptyMap
        inner2 == [y \in (DOMAIN inner) \cup {t} |-> IF y = t THEN v ELSE inner[y]]
    IN  [x \in (DOMAIN m) \cup {g} |-> IF x = g THEN inner2 ELSE m[x]]

Has(m, g, t) == g \in DOMAIN m /\ t \in DOMAIN m[g]

\* multicallResult[rIndex] with JavaScript's 0-based index.
At(multicallResult, rIndex) ==
    IF rIndex + 1 \in 1 .. Len(multicallResult)
    THEN multicallResult[rIndex + 1].value
    ELSE Undefined

\* ethcallProvider.tryAll(calls): one result per call, in call order.
tryAll(calls, answer) ==
    [i \in 1 .. Len(calls) |-> [call |-> calls[i], value |-> answer[calls[i]]]]

\* ----------------------------------------------------- getRewardsPerGauges
\* The calls getRewardsPerGauges issues: none on the early return.
getRewardsPerGaugesWhenInactive(active, prov, gs, contract) ==
    IF ~prov \/ Len(gs) = 0
    THEN <<>>
    ELSE [i \in 1 .. Len(gs) |->
            [fn |-> "rewards_per_gauge", contract |-> contract,
             gauge |-> gs[i].gauge, token |-> "-"]]

getRewardsPerGauges(active, prov, gs, contract) ==
    IF ~active \/ ~prov \/ Len(gs) = 0
    THEN <<>>
    ELSE [i \in 1 .. Len(gs) |->
            [fn |-> "rewards_per_gauge", contract |-> contract,
             gauge |-> gs[i].gauge, token |-> "-"]]

\* ------------------------------------------------------- getRewardsPerUser
UserFns == <<"reward_per_token", "active_period", "claimable">>
NextFns == <<"reward_per_gauge", "claims_per_gauge">>

\* The calls pushed for one gauge: Len(fns) calls per token, token by token.
CallsFor(fns, contract, gauge, rewardPerGauge) ==
    [k \in 1 .. Len(fns) * Len(rewardPerGauge) |->
        [fn |-> fns[((k - 1) % Len(fns)) + 1], contract |-> contract,
         gauge |-> gauge, token |-> rewardPerGauge[((k - 1) \div Len(fns)) + 1]]]

KeysFor(gauge, rewardPerGauge) ==
    [j \in 1 .. Len(rewardPerGauge) |-> allowanceKey(gauge, rewardPerGauge[j])]

\* The loop over gauges of getRewardsPerUser (mutate = TRUE) and of
\* getNextPeriodRewards (mutate = FALSE); _rewardsPerGauges.shift() is the
\* i-th token list, or undefined once the copy is exhausted.
RECURSIVE FetchLoop(_, _, _, _, _, _, _)
FetchLoop(fns, contract, rewardsPerGauges, mutate, gs, i, acc) ==
    IF i > Len(gs) THEN acc
    ELSE LET rewardPerGauge ==
                 IF i <= Len(rewardsPerGauges) THEN rewardsPerGauges[i] ELSE <<>>
         IN  IF Len(rewardPerGauge) > 0
             THEN FetchLoop(fns, contract, rewardsPerGauges, mutate, gs, i + 1,
                    [rewardsList |-> acc.rewardsList \o KeysFor(gs[i].gauge, rewardPerGauge),
                     calls |-> acc.calls \o CallsFor(fns, contract, gs[i].gauge, rewardPerGauge),
                     gauges |-> IF mutate
                                THEN [acc.gauges EXCEPT ![i] =
                                        [@ EXCEPT !.hasRewardPerGauge = TRUE,
                                                  !.rewardPerGauge = @ \o rewardPerGauge]]
                                ELSE acc.gauges])
             ELSE FetchLoop(fns, contract, rewardsPerGauges, mutate, gs, i + 1, acc)

\* getRewardsPerUser up to its tryAll: the key list, the call batch and the
\* gauge list as the loop leaves it.
getRewardsPerUser(active, prov, gs, contract, rewardsPerGauges) ==
    IF ~active \/ ~prov \/ Len(rewardsPerGauges) = 0
    THEN [rewardsList |-> <<>>, calls |-> <<>>, gauges |-> gs]
    ELSE FetchLoop(UserFns, contract, rewardsPerGauges, TRUE, gs, 1,
                   [rewardsList |-> <<>>, calls |-> <<>>, gauges |-> gs])

\* getNextPeriodRewards up to its tryAll.
getNextPeriodRewards(active, prov, gs, contract, rewardsPerGauges) ==
    IF ~active \/ ~prov \/ Len(rewardsPerGauges) = 0
    THEN [rewardsList |-> <<>>, calls |-> <<>>, gauges |-> gs]
    ELSE FetchLoop(NextFns, contract, rewardsPerGauges, FALSE, gs, 1,
                   [rewardsList |-> <<>>, calls |-> <<>>, gauges |-> gs])

\* The registry the second getRewardsPerUser call of getBribes is given.
UserV3Contract == "V2"

\* ------------------------------------------------------------ assignBribes
\* The loop of assignBribes with the period compared by > instead of >=.
RECURSIVE BribesLoopStrictPeriod(_, _, _, _, _)
BribesLoopStrictPeriod(rewardsList, multicallResult, cp, i, acc) ==
    IF i > Len(rewardsList) \/ acc.threw THEN acc
    ELSE LET rIndex == 3 * (i - 1)
             rewardPerTokenPerGauge == At(multicallResult, rIndex)
             periodPerTokenPerGauge == At(multicallResult, rIndex + 1)
             claimablePerTokenPerGauge == At(multicallResult, rIndex + 2)
             gauge == toAddress(rewardsList[i][1])
             token == toAddress(rewardsList[i][2])
         IN  IF periodPerTokenPerGauge = Undefined
             THEN [acc EXCEPT !.threw = TRUE]
             ELSE IF periodPerTokenPerGauge > cp /\ rewardPerTokenPerGauge > 0
             THEN BribesLoopStrictPeriod(rewardsList, multicallResult, cp, i + 1,
                    [threw |-> FALSE,
                     currentRewards |-> Put(acc.currentRewards, gauge, token, rewardPerTokenPerGauge),
                     periods |-> Put(acc.periods, gauge, token, periodPerTokenPerGauge),
                     claimable |-> Put(acc.claimable, gauge, token, claimablePerTokenPerGauge)])
             ELSE BribesLoopStrictPeriod(rewardsList, multicallResult, cp, i + 1, acc)

\* The loop of assignBribes.  threw: a read past the end made
\* periodPerTokenPerGauge undefined, and .toNumber() raised.
RECURSIVE BribesLoop(_, _, _, _, _)
BribesLoop(rewardsList, multicallResult, cp, i, acc) ==
    IF i > Len(rewardsList) \/ acc.threw THEN acc
    ELSE LET rIndex == 3 * (i - 1)
             rewardPerTokenPerGauge == At(multicallResult, rIndex)
             periodPerTokenPerGauge == At(multicallResult, rIndex + 1)
             claimablePerTokenPerGauge == At(multicallResult, rIndex + 2)
             gauge == toAddress(rewardsList[i][1])
             token == toAddress(rewardsList[i][2])
         IN  IF periodPerTokenPerGauge = Undefined
             THEN [acc EXCEPT !.threw = TRUE]
             ELSE IF periodPerTokenPerGauge >= cp /\ rewardPerTokenPerGauge > 0
             THEN BribesLoop(rewardsList, multicallResult, cp, i + 1,
                    [threw |-> FALSE,
                     currentRewards |-> Put(acc.currentRewards, gauge, token, rewardPerTokenPerGauge),
                     periods |-> Put(acc.periods, gauge, token, periodPerTokenPerGauge),
                     claimable |-> Put(acc.claimable, gauge, token, claimablePerTokenPerGauge)])
             ELSE BribesLoop(rewardsList, multicallResult, cp, i + 1, acc)

\* assignBribes without its early return.
assignBribesUnguarded(rewardsList, multicallResult, cp) ==
    LET r == BribesLoop(rewardsList, multicallResult, cp, 1,
                [threw |-> FALSE, currentRewards |-> EmptyMap,
                 periods |-> EmptyMap, claimable |-> EmptyMap])
    IN  [wrote |-> ~r.threw, currentRewards |-> r.currentRewards,
         periods |-> r.periods, claimable |-> r.claimable]

\* assignBribes(rewardsList, multicallResult) with the currentPeriod of its
\* closure: wrote says whether the three set_ calls were reached.
assignBribes(rewardsList, multicallResult, cp) ==
    IF Len(multicallResult) = 0 \/ Len(rewardsList) = 0
    THEN [wrote |-> FALSE, currentRewards |-> EmptyMap, periods |-> EmptyMap,
          claimable |-> EmptyMap]
    ELSE LET r == BribesLoop(rewardsList, multicallResult, cp, 1,
                    [threw |-> FALSE, currentRewards |-> EmptyMap,
                     periods |-> EmptyMap, claimable |-> EmptyMap])
         IN  [wrote |-> ~r.threw, currentRewards |-> r.currentRewards,
              periods |-> r.periods, claimable |-> r.claimable]

\* ------------------------------------------------------- assignNextRewards
\* The loop of assignNextRewards with the pending amount clamped at zero.
RECURSIVE NextLoopClamped(_, _, _, _)
NextLoopClamped(rewardsList, multicallResult, i, acc) ==
    IF i > Len(rewardsList) \/ acc.threw THEN acc
    ELSE LET rIndex == 2 * (i - 1)
             rewardPerTokenPerGauge == At(multicallResult, rIndex)
             claimsPerTokenPerGauge == At(multicallResult, rIndex + 1)
             gauge == toAddress(rewardsList[i][1])
             token == toAddress(rewardsList[i][2])
             pendingForNextPeriod ==
                 IF rewardPerTokenPerGauge > claimsPerTokenPerGauge
                 THEN rewardPerTokenPerGauge - claimsPerTokenPerGauge ELSE 0
         IN  IF rewardPerTokenPerGauge = Undefined \/ claimsPerTokenPerGauge = Undefined
             THEN [acc EXCEPT !.threw = TRUE]
             ELSE NextLoopClamped(rewardsList, multicallResult, i + 1,
                    [threw |-> FALSE,
                     nextRewards |-> Put(acc.nextRewards, gauge, token, pendingForNextPeriod)])

\* The loop of assignNextRewards: a read past the end makes .sub() raise.
RECURSIVE NextLoop(_, _, _, _)
NextLoop(rewardsList, multicallResult, i, acc) ==
    IF i > Len(rewardsList) \/ acc.threw THEN acc
    ELSE LET rIndex == 2 * (i - 1)
             rewardPerTokenPerGauge == At(multicallResult, rIndex)
             claimsPerTokenPerGauge == At(multicallResult, rIndex + 1)
             gauge == toAddress(rewardsList[i][1])
             token == toAddress(rewardsList[i][2])
             pendingForNextPeriod == rewardPerTokenPerGauge - claimsPerTokenPerGauge
         IN  IF rewardPerTokenPerGauge = Undefined \/ claimsPerTokenPerGauge = Undefined
             THEN [acc EXCEPT !.threw = TRUE]
             ELSE NextLoop(rewardsList, multicallResult, i + 1,
                    [threw |-> FALSE,
                     nextRewards |-> Put(acc.nextRewards, gauge, token, pendingForNextPeriod)])

\* assignNextRewards without its early return.
assignNextRewardsUnguarded(rewardsList, multicallResult) ==
    LET r == NextLoop(rewardsList, multicallResult, 1,
                [threw |-> FALSE, nextRewards |-> EmptyMap])
    IN  [wrote |-> ~r.threw, nextRewards |-> r.nextRewards]

\* assignNextRewards(rewardsList, multicallResult): wrote says whether
\* set_nextRewards was reached.
assignNextRewards(rewardsList, multicallResult) ==
    IF Len(multicallResult) = 0 \/ Len(rewardsList) = 0
    THEN [wrote |-> FALSE, nextRewards |-> EmptyMap]
    ELSE LET r == NextLoop(rewardsList, multicallResult, 1,
                    [threw |-> FALSE, nextRewards |-> EmptyMap])
         IN  [wrote |-> ~r.threw, nextRewards |-> r.nextRewards]

\* ------------------------------------------------------------------- state
VARIABLES
    isActive,        \* useWeb3().isActive
    provider,        \* useWeb3().provider is set
    gauges,          \* useCurve().gauges, one array shared by every closure
    currentRewards,  \* useState, line 43
    nextRewards,     \* useState, line 44
    claimable,       \* useState, line 45
    isLoading,       \* useState, line 46
    currentPeriod,   \* useState, line 47
    nextPeriod,      \* useState, line 48
    periods,         \* _periods of the assignBribes call that last published
    periodReqs,      \* current_period() requests in flight (line 58)
    cycles,          \* the getBribes invocations, by start order
    nStarted,        \* how many getBribes invocations were started
    curStamp,        \* the cycle whose assignBribes last called set_currentRewards
    claimStamp,      \* the cycle whose assignBribes last called set_claimable
    nextStamp,       \* the cycle whose assignNextRewards last called set_nextRewards
    lastDone,        \* the cycle that completed last
    lastBribes,      \* the last completed cycle whose merged key list was not empty
    lastNext,        \* the last completed cycle whose projection key list was not empty
    overlap          \* some cycle was started while another was in flight

vars == <<isActive, provider, gauges, currentRewards, nextRewards, claimable,
          isLoading, currentPeriod, nextPeriod, periods, periodReqs, cycles,
          nStarted, curStamp, claimStamp, nextStamp, lastDone, lastBribes,
          lastNext, overlap>>

published == <<currentRewards, nextRewards, claimable, isLoading, periods,
               curStamp, claimStamp, nextStamp, lastDone, lastBribes, lastNext>>
wallet == <<isActive, provider>>
period == <<currentPeriod, nextPeriod, periodReqs>>

CycleIds == 1 .. MaxCycles

\* A getBribes invocation that holds nothing: not started, or completed.
\* isActive, provider and cp are the values its closures captured.
Blank(pc) ==
    [pc |-> pc, isActive |-> FALSE, provider |-> FALSE, cp |-> 0,
     gotV2 |-> FALSE, gotV3 |-> FALSE,
     rewardsPerGaugesV2 |-> <<>>, rewardsPerGaugesV3 |-> <<>>,
     builtV2 |-> FALSE, builtV3 |-> FALSE,
     multicallResultV2 |-> <<>>, multicallResultV3 |-> <<>>,
     nextMulticallResultV3 |-> <<>>]

\* getBribes called in a render whose closures hold (active, prov, gs, cp):
\* both getRewardsPerGauges calls are made.  On their early return the three
\* fetches return early too and getBribes goes on to publish without ever
\* giving up control.
getBribes(active, prov, gs, cp) ==
    LET start == [Blank("discovering") EXCEPT !.isActive = active,
                     !.provider = prov, !.cp = cp]
    IN  IF getRewardsPerGauges(active, prov, gs, "V2") = <<>>
           /\ getRewardsPerGauges(active, prov, gs, "V3") = <<>>
        THEN [start EXCEPT !.pc = "publishing", !.gotV2 = TRUE, !.gotV3 = TRUE,
                 !.builtV2 = TRUE, !.builtV3 = TRUE]
        ELSE start

\* The batches cycle cy sends, and the key lists it keeps beside them.  The
\* gauge addresses they are built from never change once the list is loaded.
DiscoveryCalls(cy, v) == getRewardsPerGauges(cy.isActive, cy.provider, gauges, v)
UserV2(cy) == getRewardsPerUser(cy.isActive, cy.provider, gauges, "V2",
                                Values(cy.rewardsPerGaugesV2))
UserV3(cy) == getRewardsPerUser(cy.isActive, cy.provider, gauges, UserV3Contract,
                                Values(cy.rewardsPerGaugesV3))
NextV3(cy) == getNextPeriodRewards(cy.isActive, cy.provider, gauges, "V3",
                                   Values(cy.rewardsPerGaugesV3))

InFlight(c) == cycles[c].pc \in {"discovering", "fetching", "publishing"}

\* The continuation of getBribes after its last await runs to its end before
\* any other task: nothing else happens while a cycle is publishing.
NoPublishing == \A c \in CycleIds : cycles[c].pc # "publishing"

\* The useEffect on getBribes (line 260) and refresh() (line 277) both start
\* a cycle with the closures of the latest render.
Launch(active, prov, gs, cp) ==
    /\ nStarted < MaxCycles
    /\ nStarted' = nStarted + 1
    /\ cycles' = [cycles EXCEPT ![nStarted + 1] = getBribes(active, prov, gs, cp)]
    /\ overlap' = (overlap \/ \E c \in CycleIds : InFlight(c))

Init ==
    /\ isActive \in BOOLEAN
    /\ provider \in BOOLEAN
    /\ gauges \in {<<>>, GaugeList}
    /\ currentRewards = EmptyMap
    /\ nextRewards = EmptyMap
    /\ claimable = EmptyMap
    /\ periods = EmptyMap
    /\ isLoading = TRUE
    /\ currentPeriod = getLastThursday
    /\ nextPeriod = getLastThursday + Week
    /\ periodReqs = 1
    /\ nStarted = 1
    /\ cycles = [c \in CycleIds |->
                    IF c = 1 THEN getBribes(isActive, provider, gauges, currentPeriod)
                    ELSE Blank("idle")]
    /\ curStamp = 0 /\ claimStamp = 0 /\ nextStamp = 0
    /\ lastDone = 0 /\ lastBribes = 0 /\ lastNext = 0
    /\ overlap = FALSE

\* ----------------------------------------------------------------- actions
\* refresh(): the getBribes of the latest render.
Refresh ==
    /\ NoPublishing
    /\ Launch(isActive, provider, gauges, currentPeriod)
    /\ UNCHANGED <<wallet, gauges, published, period>>

\* The wallet context connects or disconnects: getBribes is rebuilt and its
\* effect runs it.
SetActive ==
    /\ NoPublishing
    /\ isActive' = ~isActive
    /\ Launch(isActive', provider, gauges, currentPeriod)
    /\ UNCHANGED <<provider, gauges, published, period>>

\* The gauge-registry context delivers its list.
GaugesLoaded ==
    /\ NoPublishing
    /\ gauges = <<>>
    /\ gauges' = GaugeList
    /\ Launch(isActive, provider, gauges', currentPeriod)
    /\ UNCHANGED <<wallet, published, period>>

\* getSharedStuffFromBribes, lines 58-63: the on-chain period overwrites the
\* local one.  A changed currentPeriod rebuilds assignBribes and getBribes,
\* whose effect starts a cycle.
getSharedStuffFromBribes ==
    /\ NoPublishing
    /\ periodReqs > 0
    /\ \E _currentPeriod \in Periods :
        /\ currentPeriod' = _currentPeriod
        /\ nextPeriod' = _currentPeriod + Week
        /\ periodReqs' = periodReqs - 1
        /\ IF _currentPeriod # currentPeriod
           THEN Launch(isActive, provider, gauges, _currentPeriod)
           ELSE UNCHANGED <<cycles, nStarted, overlap>>
    /\ UNCHANGED <<wallet, gauges, published>>

Tokens(rpg) == LET Sum[i \in 0 .. Len(rpg)] ==
                       IF i = 0 THEN 0 ELSE Sum[i - 1] + Len(rpg[i].value)
               IN  Sum[Len(rpg)]

\* One getRewardsPerGauges call of cycle c returns (line 85).  When both have,
\* Promise.all resolves and the three fetches are called (lines 242-246).
DiscoveryReturn(c, v, lists, maxPairs) ==
    /\ NoPublishing
    /\ cycles[c].pc = "discovering"
    /\ IF v = "V2" THEN ~cycles[c].gotV2 ELSE ~cycles[c].gotV3
    /\ LET calls == DiscoveryCalls(cycles[c], v)
           other == IF v = "V2" THEN cycles[c].rewardsPerGaugesV3
                    ELSE cycles[c].rewardsPerGaugesV2
           otherGot == IF v = "V2" THEN cycles[c].gotV3 ELSE cycles[c].gotV2
       IN  \E answer \in [Range(calls) -> lists] :
             LET res == tryAll(calls, answer)
             IN  /\ Tokens(res) + Tokens(other) <= maxPairs
                 /\ cycles' = [cycles EXCEPT ![c] =
                       IF v = "V2"
                       THEN [@ EXCEPT !.gotV2 = TRUE, !.rewardsPerGaugesV2 = res,
                                      !.pc = IF otherGot THEN "fetching" ELSE @]
                       ELSE [@ EXCEPT !.gotV3 = TRUE, !.rewardsPerGaugesV3 = res,
                                      !.pc = IF otherGot THEN "fetching" ELSE @]]
    /\ UNCHANGED <<wallet, gauges, published, period, nStarted, overlap>>

\* One getRewardsPerUser call of cycle c runs from its provider await to its
\* tryAll (lines 104-126): it builds its batch and pushes the discovered
\* tokens onto the gauges of the shared list.
BuildUserCalls(c, v) ==
    /\ NoPublishing
    /\ cycles[c].pc = "fetching"
    /\ IF v = "V2" THEN ~cycles[c].builtV2 ELSE ~cycles[c].builtV3
    /\ gauges' = IF v = "V2" THEN UserV2(cycles[c]).gauges ELSE UserV3(cycles[c]).gauges
    /\ cycles' = [cycles EXCEPT ![c] =
          IF v = "V2" THEN [@ EXCEPT !.builtV2 = TRUE] ELSE [@ EXCEPT !.builtV3 = TRUE]]
    /\ UNCHANGED <<wallet, published, period, nStarted, overlap>>

PairsOf(calls) == {<<calls[i].gauge, calls[i].token>> : i \in 1 .. Len(calls)}

\* What one batch of user calls reads from the chain.
UserAnswer(calls, reward, active, claim) ==
    [call \in Range(calls) |->
        IF call.fn = "reward_per_token" THEN reward[<<call.gauge, call.token>>]
        ELSE IF call.fn = "active_period" THEN active[<<call.gauge, call.token>>]
        ELSE claim[<<call.gauge, call.token>>]]

NextAnswer(calls, reward, claims) ==
    [call \in Range(calls) |->
        IF call.fn = "reward_per_gauge" THEN reward[<<call.gauge, call.token>>]
        ELSE claims[<<call.gauge, call.token>>]]

\* The merge with the V3 keys left out, and with the result lists swapped.
MergedRewardsListV2Only(rewardsListV2, rewardsListV3) == rewardsListV2
MergedMulticallResultSwapped(multicallResultV2, multicallResultV3) ==
    multicallResultV3 \o multicallResultV2

\* The arguments getBribes hands to assignBribes (lines 254-255).
MergedRewardsList(rewardsListV2, rewardsListV3) == rewardsListV2 \o rewardsListV3
MergedMulticallResult(multicallResultV2, multicallResultV3) ==
    multicallResultV2 \o multicallResultV3

\* performBatchedUpdates of getBribes (lines 252-258) for cycle c:
\* assignBribes and assignNextRewards run inside one batch, with the
\* currentPeriod cp of the render that started the cycle.
performBatchedUpdates(c, cp, rewardsListV2, multicallResultV2, rewardsListV3, multicallResultV3, nextRewardsListV3, nextMulticallResultV3) ==
    /\ LET b == assignBribes(MergedRewardsList(rewardsListV2, rewardsListV3),
                             MergedMulticallResult(multicallResultV2, multicallResultV3),
                             cp)
           n == assignNextRewards(nextRewardsListV3, nextMulticallResultV3)
       IN  /\ currentRewards' = IF b.wrote THEN b.currentRewards ELSE currentRewards
           /\ claimable' = IF b.wrote THEN b.claimable ELSE claimable
           /\ periods' = IF b.wrote THEN b.periods ELSE periods
           /\ isLoading' = IF b.wrote THEN FALSE ELSE isLoading
           /\ nextRewards' = IF n.wrote THEN n.nextRewards ELSE nextRewards
           /\ curStamp' = IF b.wrote THEN c ELSE curStamp
           /\ claimStamp' = IF b.wrote THEN c ELSE claimStamp
           /\ nextStamp' = IF n.wrote THEN c ELSE nextStamp
    /\ lastDone' = c
    /\ lastBribes' = IF Len(rewardsListV2) + Len(rewardsListV3) > 0 THEN c ELSE lastBribes
    /\ lastNext' = IF Len(nextRewardsListV3) > 0 THEN c ELSE lastNext
    /\ cycles' = [cycles EXCEPT ![c] = Blank("done")]
    /\ UNCHANGED <<wallet, gauges, period, nStarted, overlap>>

\* The three tryAll of cycle c return and Promise.all resolves (lines 126,
\* 161, 242-251); the cycle is left holding the three result lists.
FetchJoin(c, amounts) ==
    /\ NoPublishing
    /\ cycles[c].pc = "fetching"
    /\ cycles[c].builtV2 /\ cycles[c].builtV3
    /\ LET u2 == UserV2(cycles[c]).calls
           u3 == UserV3(cycles[c]).calls
           n3 == NextV3(cycles[c]).calls
           p2 == PairsOf(u2)
           p3 == PairsOf(u3)
           pn == PairsOf(n3)
       IN  \E r2 \in [p2 -> amounts], a2 \in [p2 -> Periods], c2 \in [p2 -> amounts],
              r3 \in [p3 -> amounts], a3 \in [p3 -> Periods], c3 \in [p3 -> amounts],
              rn \in [pn -> amounts], cn \in [pn -> amounts] :
             cycles' = [cycles EXCEPT ![c] =
                 [@ EXCEPT !.pc = "publishing",
                     !.multicallResultV2 = tryAll(u2, UserAnswer(u2, r2, a2, c2)),
                     !.multicallResultV3 = tryAll(u3, UserAnswer(u3, r3, a3, c3)),
                     !.nextMulticallResultV3 = tryAll(n3, NextAnswer(n3, rn, cn))]]
    /\ UNCHANGED <<wallet, gauges, published, period, nStarted, overlap>>

\* A cycle that holds its result lists publishes.
Publish(c) ==
    /\ cycles[c].pc = "publishing"
    /\ performBatchedUpdates(c, cycles[c].cp,
          UserV2(cycles[c]).rewardsList, cycles[c].multicallResultV2,
          UserV3(cycles[c]).rewardsList, cycles[c].multicallResultV3,
          NextV3(cycles[c]).rewardsList, cycles[c].nextMulticallResultV3)

\* FetchJoin and Publish as the one step they are for every other task.
FetchJoinPublish(c, amounts) ==
    /\ NoPublishing
    /\ cycles[c].pc = "fetching"
    /\ cycles[c].builtV2 /\ cycles[c].builtV3
    /\ LET u2 == UserV2(cycles[c])
           u3 == UserV3(cycles[c])
           n3 == NextV3(cycles[c])
           p2 == PairsOf(u2.calls)
           p3 == PairsOf(u3.calls)
           pn == PairsOf(n3.calls)
       IN  \E r2 \in [p2 -> amounts], a2 \in [p2 -> Periods], c2 \in [p2 -> amounts],
              r3 \in [p3 -> amounts], a3 \in [p3 -> Periods], c3 \in [p3 -> amounts],
              rn \in [pn -> amounts], cn \in [pn -> amounts] :
             performBatchedUpdates(c, cycles[c].cp,
                 u2.rewardsList, tryAll(u2.calls, UserAnswer(u2.calls, r2, a2, c2)),
                 u3.rewardsList, tryAll(u3.calls, UserAnswer(u3.calls, r3, a3, c3)),
                 n3.rewardsList, tryAll(n3.calls, NextAnswer(n3.calls, rn, cn)))

\* The application: cycles race, the wallet, the gauge list and the period
\* change under them.
Next ==
    \/ Refresh
    \/ SetActive
    \/ GaugesLoaded
    \/ getSharedStuffFromBribes
    \/ \E c \in CycleIds, v \in {"V2", "V3"} : DiscoveryReturn(c, v, AppTokenLists, AppPairs)
    \/ \E c \in CycleIds, v \in {"V2", "V3"} : BuildUserCalls(c, v)
    \/ \E c \in CycleIds : FetchJoinPublish(c, Amounts)
    \/ \E c \in CycleIds : Publish(c)

Spec == Init /\ [][Next]_vars

\* One refresh cycle on its own, with the wallet connected and the gauge list
\* loaded, stopping between the join of its fetches and its publication.
InitCycle ==
    /\ isActive = TRUE
    /\ provider = TRUE
    /\ gauges = GaugeList
    /\ currentRewards = EmptyMap
    /\ nextRewards = EmptyMap
    /\ claimable = EmptyMap
    /\ periods = EmptyMap
    /\ isLoading = TRUE
    /\ currentPeriod = getLastThursday
    /\ nextPeriod = getLastThursday + Week
    /\ periodReqs = 0
    /\ nStarted = 1
    /\ cycles = [c \in CycleIds |->
                    IF c = 1 THEN getBribes(isActive, provider, gauges, currentPeriod)
                    ELSE Blank("idle")]
    /\ curStamp = 0 /\ claimStamp = 0 /\ nextStamp = 0
    /\ lastDone = 0 /\ lastBribes = 0 /\ lastNext = 0
    /\ overlap = FALSE

NextCycle ==
    \/ \E c \in CycleIds, v \in {"V2", "V3"} : DiscoveryReturn(c, v, TokenLists, MaxPairs)
    \/ \E c \in CycleIds, v \in {"V2", "V3"} : BuildUserCalls(c, v)
    \/ \E c \in CycleIds : FetchJoin(c, Amounts)
    \/ \E c \in CycleIds : Publish(c)

SpecCycle == InitCycle /\ [][NextCycle]_vars


\* ------------------------------------------------------------------ claims
CanonGauges == {toAddress(GaugeList[i].gauge) : i \in 1 .. Len(GaugeList)}
AllTokens == {"T1", "T2"}

\* The (gauge, token) pair key i of a key list stands for, as the assign
\* functions address it.
PairOf(rewardsList, i) == <<toAddress(rewardsList[i][1]), toAddress(rewardsList[i][2])>>

\* Cycle c leaves getBribes in this step; it publishes from a state that holds
\* its result lists.
Completes(c) == cycles[c].pc \in {"fetching", "publishing"} /\ cycles'[c].pc = "done"
Publishes(c) == cycles[c].pc = "publishing" /\ cycles'[c].pc = "done"

\* The arguments of the assignBribes and assignNextRewards calls of cycle c.
BribesKeys(c) == MergedRewardsList(UserV2(cycles[c]).rewardsList,
                                   UserV3(cycles[c]).rewardsList)
BribesResults(c) == MergedMulticallResult(cycles[c].multicallResultV2,
                                          cycles[c].multicallResultV3)
NextKeys(c) == NextV3(cycles[c]).rewardsList
NextResults(c) == cycles[c].nextMulticallResultV3

\* Occurrence i of a stride-3 list passes the filter of assignBribes.
Qualifies(multicallResult, cp, i) ==
    /\ 3 * i <= Len(multicallResult)
    /\ multicallResult[3 * i - 2].value # 0
    /\ multicallResult[3 * i - 1].value >= cp

WellKeyed(m) == /\ DOMAIN m \subseteq CanonGauges
                /\ \A g \in DOMAIN m : DOMAIN m[g] \subseteq AllTokens

AllDone == /\ nStarted >= 2
           /\ \A c \in 1 .. nStarted : cycles[c].pc = "done"

\* C1, as stated: for every key of the list handed to assignBribes, the
\* published currentRewards and claimable hold an entry for the key's
\* (gauge, token) exactly when that key's reward is nonzero and its active
\* period is at or after the currentPeriod of the call, and the entry holds
\* that key's reward and claimable amounts.
C1_EntryIffItsTripleQualifies ==
    [][\A c \in CycleIds :
         (Publishes(c) /\ Len(BribesKeys(c)) > 0) =>
            LET K == BribesKeys(c)
                R == BribesResults(c)
                cp == cycles[c].cp
            IN  \A i \in 1 .. Len(K) :
                  LET g == PairOf(K, i)[1]
                      t == PairOf(K, i)[2]
                  IN  /\ Has(currentRewards', g, t) <=> Qualifies(R, cp, i)
                      /\ Has(claimable', g, t) <=> Qualifies(R, cp, i)
                      /\ Qualifies(R, cp, i) =>
                            /\ currentRewards'[g][t] = R[3 * i - 2].value
                            /\ claimable'[g][t] = R[3 * i].value]_vars

\* C1, amended: the published currentRewards and claimable hold an entry for
\* (gauge, token) exactly when some occurrence of that pair in the key list
\* has a nonzero reward and an active period at or after the currentPeriod of
\* the call; the entry holds the reward and claimable amounts of the last
\* such occurrence.
C1_EntryIffSomeOccurrenceQualifies ==
    [][\A c \in CycleIds :
         (Publishes(c) /\ Len(BribesKeys(c)) > 0) =>
            LET K == BribesKeys(c)
                R == BribesResults(c)
                cp == cycles[c].cp
                Q(g, t) == {i \in 1 .. Len(K) :
                               PairOf(K, i) = <<g, t>> /\ Qualifies(R, cp, i)}
                Last(S) == CHOOSE i \in S : \A j \in S : j <= i
            IN  /\ WellKeyed(currentRewards') /\ WellKeyed(claimable')
                /\ \A g \in CanonGauges, t \in AllTokens :
                      /\ Has(currentRewards', g, t) <=> Q(g, t) # {}
                      /\ Has(claimable', g, t) <=> Q(g, t) # {}
                      /\ Q(g, t) # {} =>
                            /\ currentRewards'[g][t] = R[3 * Last(Q(g, t)) - 2].value
                            /\ claimable'[g][t] = R[3 * Last(Q(g, t))].value]_vars

\* A cycle has published an entry for a pair that both registries listed.
C1_Witness ==
    /\ cycles[1].pc = "done"
    /\ gauges[1].rewardPerGauge = <<"T1", "T1">>
    /\ Has(currentRewards, "G1", "T1")
    /\ ~Has(currentRewards, "G2", "T1")
    /\ gauges[2].rewardPerGauge = <<>>

\* C2: the published nextRewards holds, for every key of the list handed to
\* assignNextRewards and for no other pair, that key's reward_per_gauge minus
\* its claims_per_gauge, negative when the claims exceed the reward.
C2_NextIsRewardMinusClaims ==
    [][\A c \in CycleIds :
         (Publishes(c) /\ Len(NextKeys(c)) > 0) =>
            LET K == NextKeys(c)
                R == NextResults(c)
            IN  /\ WellKeyed(nextRewards')
                /\ \A i \in 1 .. Len(K) :
                      /\ 2 * i <= Len(R)
                      /\ Has(nextRewards', PairOf(K, i)[1], PairOf(K, i)[2])
                      /\ nextRewards'[PairOf(K, i)[1]][PairOf(K, i)[2]]
                            = R[2 * i - 1].value - R[2 * i].value
                /\ \A g \in CanonGauges, t \in AllTokens :
                      Has(nextRewards', g, t) =>
                         \E i \in 1 .. Len(K) : PairOf(K, i) = <<g, t>>]_vars

\* Two pairs were published with different pending amounts, one negative.
C2_Witness ==
    /\ cycles[1].pc = "done"
    /\ Has(nextRewards, "G1", "T1") /\ nextRewards["G1"]["T1"] < 0
    /\ Has(nextRewards, "G2", "T1") /\ nextRewards["G2"]["T1"] > 0

C4_LastToCompleteWins ==
    (overlap /\ AllDone) =>
        /\ curStamp = lastDone \/ currentRewards = EmptyMap
        /\ claimStamp = lastDone \/ claimable = EmptyMap
        /\ nextStamp = lastDone \/ nextRewards = EmptyMap

\* C4, amended: once overlapping cycles have all completed, currentRewards and
\* claimable are those of the last cycle to complete among the cycles whose
\* merged key list was not empty, and nextRewards those of the last cycle to
\* complete among the cycles whose projection key list was not empty (the
\* initial empty mappings when there is none), whatever the start order.
C4_LastNonEmptyToCompleteWins ==
    (overlap /\ AllDone) =>
        /\ curStamp = lastBribes /\ claimStamp = lastBribes /\ nextStamp = lastNext

\* The cycle started first completed last and overwrote currentRewards, while
\* nextRewards stays that of the cycle started second.
C4_Witness ==
    /\ overlap /\ AllDone
    /\ lastDone = 1 /\ curStamp = 1 /\ nextStamp = 2

\* C5: every published entry has an active period at or after the published
\* currentPeriod.
C5_EntriesNotOlderThanCurrentPeriod ==
    \A g \in DOMAIN currentRewards : \A t \in DOMAIN currentRewards[g] :
        /\ Has(claimable, g, t)
        /\ Has(periods, g, t)
        /\ periods[g][t] >= currentPeriod

\* C6: the user batch built from the token lists of a registry is sent to
\* that registry.
C6_EachRegistryQueriedForItsOwnTokens ==
    \A c \in CycleIds :
        cycles[c].pc = "fetching" =>
            /\ cycles[c].builtV2 =>
                  \A call \in Range(UserV2(cycles[c]).calls) : call.contract = "V2"
            /\ cycles[c].builtV3 =>
                  \A call \in Range(UserV3(cycles[c]).calls) : call.contract = "V3"

\* C7: a cycle whose merged key list is empty leaves currentRewards,
\* claimable, nextRewards and isLoading as they were, and a cycle whose
\* projection key list is empty leaves nextRewards as it was.
C7_EmptyListsChangeNothing ==
    [][\A c \in CycleIds :
         Completes(c) =>
            /\ Len(BribesKeys(c)) = 0 =>
                  UNCHANGED <<currentRewards, claimable, nextRewards, isLoading, periods>>
            /\ Len(NextKeys(c)) = 0 => UNCHANGED nextRewards]_vars

\* A refresh made after the wallet disconnected has completed, and what an
\* earlier cycle published is still there.
C7_Witness ==
    /\ ~isActive /\ gauges # <<>>
    /\ cycles[2].pc = "done" /\ lastDone = 2
    /\ curStamp = 1 /\ nextStamp = 1
    /\ currentRewards # EmptyMap /\ nextRewards # EmptyMap /\ ~isLoading

\* C8: a cycle started while the connection is inactive, the provider absent
\* or the gauge list empty sends no discovery call and holds empty discovery
\* results; otherwise each discovery result holds one token list per gauge,
\* the i-th being the registry's answer for the i-th gauge.
C8_DiscoveryEmptyOrOnePerGauge ==
    \A c \in CycleIds :
        LET cy == cycles[c]
            ready == cy.isActive /\ cy.provider /\ Len(gauges) > 0
            PerGauge(rpg, v) ==
                /\ Len(rpg) = Len(gauges)
                /\ \A i \in 1 .. Len(rpg) :
                      /\ rpg[i].call.gauge = gauges[i].gauge
                      /\ rpg[i].call.contract = v
                      /\ rpg[i].call.fn = "rewards_per_gauge"
        IN  /\ (InFlight(c) /\ ~ready) =>
                  /\ cy.pc = "publishing"
                  /\ DiscoveryCalls(cy, "V2") = <<>> /\ DiscoveryCalls(cy, "V3") = <<>>
                  /\ cy.rewardsPerGaugesV2 = <<>> /\ cy.rewardsPerGaugesV3 = <<>>
            /\ (InFlight(c) /\ ready /\ cy.gotV2) => PerGauge(cy.rewardsPerGaugesV2, "V2")
            /\ (InFlight(c) /\ ready /\ cy.gotV3) => PerGauge(cy.rewardsPerGaugesV3, "V3")

\* One cycle holds a discovery result with the second gauge's tokens in second
\* place while another, started after the wallet disconnected, returns early.
C8_Witness ==
    /\ cycles[1].pc = "fetching"
    /\ Values(cycles[1].rewardsPerGaugesV2) = << <<>>, <<"T1">> >>
    /\ cycles[2].pc = "publishing" /\ ~cycles[2].isActive
    /\ cycles[2].rewardsPerGaugesV2 = <<>>

\* C9: the gauge list of the gauge-registry context is never
\* changed by a refresh cycle.
C9_GaugeListUntouched == gauges = <<>> \/ gauges = GaugeList

\* Entry j of key i in a stride-Len(fns) result list is the answer to call
\* fns[j] for the pair of key i.
Aligned(rewardsList, multicallResult, fns) ==
    /\ Len(multicallResult) = Len(fns) * Len(rewardsList)
    /\ \A i \in 1 .. Len(rewardsList), j \in 1 .. Len(fns) :
          LET k == Len(fns) * (i - 1) + j
          IN  /\ k <= Len(multicallResult)
              /\ multicallResult[k].call.gauge = rewardsList[i][1]
              /\ multicallResult[k].call.token = rewardsList[i][2]
              /\ multicallResult[k].call.fn = fns[j]

\* C10: the lists each fetch returns, and the merged lists handed to
\* assignBribes, are aligned: 3 (2 for the projection) entries per key, in
\* key order, each the answer for that key's pair.
C10_KeysAndResultsInLockStep ==
    \A c \in CycleIds :
        cycles[c].pc = "publishing" =>
            /\ Aligned(UserV2(cycles[c]).rewardsList, cycles[c].multicallResultV2, UserFns)
            /\ Aligned(UserV3(cycles[c]).rewardsList, cycles[c].multicallResultV3, UserFns)
            /\ Aligned(NextKeys(c), NextResults(c), NextFns)
            /\ Aligned(BribesKeys(c), BribesResults(c), UserFns)

\* A cycle holds merged lists with one key from each registry, for two
\* different pairs.
C10_Witness ==
    /\ cycles[1].pc = "publishing"
    /\ UserV2(cycles[1]).rewardsList = << <<"G2", "T1">> >>
    /\ UserV3(cycles[1]).rewardsList = << <<"g1", "T1">> >>
    /\ Len(BribesResults(1)) = 6

====
